---- MODULE Spec2Model ----
(***************************************************************************)
(* Jarvis assistant (src/jarvis.py): the command dispatch engine.           *)
(*                                                                         *)
(* A text is a sequence of one-character strings, so that the string       *)
(* operations of the source (lower, strip, startswith, in, split, re.sub)  *)
(* are computed character by character as Python computes them.            *)
(***************************************************************************)
EXTENDS Naturals, Sequences, FiniteSets

(***************************************************************************)
(* Characters and the str methods the source uses                          *)
(***************************************************************************)
UpperLetters == <<"A","B","C","D","E","F","G","H","I","J","K","L","M",
                  "N","O","P","Q","R","S","T","U","V","W","X","Y","Z">>
LowerLetters == <<"a","b","c","d","e","f","g","h","i","j","k","l","m",
                  "n","o","p","q","r","s","t","u","v","w","x","y","z">>
Digits == {"0","1","2","3","4","5","6","7","8","9"}

Range(s) == {s[i] : i \in DOMAIN s}

UpperSet == Range(UpperLetters)
LowerOf == [c \in UpperSet |->
              LowerLetters[CHOOSE i \in DOMAIN UpperLetters : UpperLetters[i] = c]]

\* str.lower() on one character whose lowercase is one character
LowerChar(c) == IF c \in UpperSet THEN LowerOf[c] ELSE c

\* LATIN CAPITAL LETTER I WITH DOT ABOVE, the one character whose str.lower() is two
\* characters: "i" and COMBINING DOT ABOVE, a mark that is neither \w nor \s
IDot == "U+0130"
DotAbove == "U+0307"

SpaceChars == {" ", "\t", "\n"}
WordChars == Range(UpperLetters) \cup Range(LowerLetters) \cup Digits \cup {"_", IDot}

\* the regex class \s and the whitespace str.strip() removes
IsSpace(c) == c \in SpaceChars

\* the regex class \w
IsWord(c) == c \in WordChars

\* str.lower() of a text in which IDot occurs
RECURSIVE LowerWide(_)
LowerWide(t) ==
    IF t = <<>> THEN <<>>
    ELSE (IF Head(t) = IDot THEN <<"i", DotAbove>> ELSE <<LowerChar(Head(t))>>)
         \o LowerWide(Tail(t))

\* str.lower()
Lower(t) ==
    IF \E i \in DOMAIN t : t[i] = IDot THEN LowerWide(t)
    ELSE [i \in DOMAIN t |-> LowerChar(t[i])]

\* the character a pattern letter must equal under re.I: the lowercase letter, and
\* "i" for IDot
FoldChar(c) == IF c = IDot THEN "i" ELSE LowerChar(c)

\* the lowercase pattern p matches at the start of t under re.I
MatchesIgnoreCase(t, p) ==
    Len(p) <= Len(t) /\ \A i \in DOMAIN p : FoldChar(t[i]) = p[i]

RECURSIVE LStrip(_)
LStrip(t) == IF t # <<>> /\ IsSpace(Head(t)) THEN LStrip(Tail(t)) ELSE t

RECURSIVE RStrip(_)
RStrip(t) ==
    IF t # <<>> /\ IsSpace(t[Len(t)]) THEN RStrip(SubSeq(t, 1, Len(t) - 1)) ELSE t

\* str.strip()
Strip(t) == RStrip(LStrip(t))

\* str.startswith(p)
StartsWith(t, p) == Len(p) <= Len(t) /\ SubSeq(t, 1, Len(p)) = p

\* p in t, for strings
Contains(t, p) ==
    \E i \in 1..(Len(t) + 1) : i + Len(p) - 1 <= Len(t) /\ SubSeq(t, i, i + Len(p) - 1) = p

Drop(t, n) == SubSeq(t, n + 1, Len(t))

\* str.split(" ", maxsplit): cuts at single spaces, at most maxsplit times
RECURSIVE SplitSpace(_, _)
SplitSpace(t, maxsplit) ==
    IF maxsplit = 0 \/ ~(\E i \in DOMAIN t : t[i] = " ")
    THEN <<t>>
    ELSE LET i == CHOOSE k \in DOMAIN t :
                      t[k] = " " /\ \A j \in 1..(k - 1) : t[j] # " "
         IN <<SubSeq(t, 1, i - 1)>> \o SplitSpace(Drop(t, i), maxsplit - 1)

\* str.split(): the maximal runs of non-whitespace characters
RECURSIVE SplitWords(_)
SplitWords(t) ==
    LET s == LStrip(t) IN
    IF s = <<>> THEN <<>>
    ELSE LET n == IF \E i \in DOMAIN s : IsSpace(s[i])
                  THEN (CHOOSE k \in DOMAIN s :
                            IsSpace(s[k]) /\ \A j \in 1..(k - 1) : ~IsSpace(s[j])) - 1
                  ELSE Len(s)
         IN <<SubSeq(s, 1, n)>> \o SplitWords(Drop(s, n))

\* " ".join(words)
RECURSIVE Join(_)
Join(ws) ==
    IF ws = <<>> THEN <<>>
    ELSE IF Len(ws) = 1 THEN ws[1]
    ELSE ws[1] \o <<" ">> \o Join(Tail(ws))

(***************************************************************************)
(* Wakeword helpers                                                        *)
(***************************************************************************)
WAKEWORD == <<"h","e","y"," ","j","a","r","v","i","s">>
K_jarvis == <<"j","a","r","v","i","s">>
K_hey == <<"h","e","y">>

RECURSIVE RemoveNonWordSpace(_)
RemoveNonWordSpace(t) ==
    IF t = <<>> THEN <<>>
    ELSE (IF IsWord(Head(t)) \/ IsSpace(Head(t)) THEN <<Head(t)>> ELSE <<>>)
         \o RemoveNonWordSpace(Tail(t))

\* re.sub(r"[^\w\s]", "", t).lower().strip()
normalize_text(t) == Strip(Lower(RemoveNonWordSpace(t)))

\* a test aware of word boundaries: the first words of the normalized text are the
\* wakeword
HasWakewordWholeWords(t) ==
    IF t = <<>> THEN FALSE
    ELSE LET ws == SplitWords(normalize_text(t))
         IN \/ Len(ws) >= 1 /\ ws[1] = K_jarvis
            \/ Len(ws) >= 2 /\ ws[1] = K_hey /\ ws[2] = K_jarvis

has_wakeword(t) ==
    IF t = <<>> THEN FALSE
    ELSE LET norm == normalize_text(t)
         IN StartsWith(norm, WAKEWORD) \/ StartsWith(norm, K_jarvis)

\* the longest prefix of t made of characters satisfying the class
RECURSIVE SkipCommas(_)
SkipCommas(t) == IF t # <<>> /\ Head(t) = "," THEN SkipCommas(Tail(t)) ELSE t

RECURSIVE SkipSeparators(_)
SkipSeparators(t) ==
    IF t # <<>> /\ (Head(t) \in {",", ":", "-"} \/ IsSpace(Head(t)))
    THEN SkipSeparators(Tail(t)) ELSE t

\* what is left of t after the optional group (hey[,]*\s+), or t itself when the
\* group does not match here (both greedy runs are of disjoint classes and the
\* next atom is a letter, so the regex has one way to match the group)
AfterHeyGroup(t) ==
    IF MatchesIgnoreCase(t, K_hey)
    THEN LET r == SkipCommas(Drop(t, 3))
         IN IF r # <<>> /\ IsSpace(Head(r)) THEN LStrip(r) ELSE t
    ELSE t

\* re.sub(r'^\s*(hey[,]*\s+)?jarvis[,:\s-]*', '', norm, flags=re.I) on norm = t.strip()
SubWakeword(norm) ==
    LET s == LStrip(norm)
        g == AfterHeyGroup(s)
    IN IF MatchesIgnoreCase(g, K_jarvis) THEN SkipSeparators(Drop(g, 6))
       ELSE IF MatchesIgnoreCase(s, K_jarvis) THEN SkipSeparators(Drop(s, 6))
       ELSE norm

strip_wakeword(t) ==
    IF t = <<>> THEN t
    ELSE Strip(SubWakeword(Strip(t)))

(***************************************************************************)
(* Keywords of process_command and open_application, and words of commands *)
(***************************************************************************)
K_open == <<"o","p","e","n">>
K_folder == <<"f","o","l","d","e","r">>
K_directory == <<"d","i","r","e","c","t","o","r","y">>
K_launch == <<"l","a","u","n","c","h">>
K_http == <<"h","t","t","p">>
K_shutdown == <<"s","h","u","t","d","o","w","n">>
K_confirm == <<"c","o","n","f","i","r","m">>
K_yes == <<"y","e","s">>
K_restart == <<"r","e","s","t","a","r","t">>
K_reboot == <<"r","e","b","o","o","t">>
K_screenshot == <<"s","c","r","e","e","n","s","h","o","t">>
K_screen == <<"s","c","r","e","e","n">>
K_shot == <<"s","h","o","t">>
K_capture == <<"c","a","p","t","u","r","e">>
K_photo == <<"p","h","o","t","o">>
K_picture == <<"p","i","c","t","u","r","e">>
K_wikipedia == <<"w","i","k","i","p","e","d","i","a">>
K_wiki == <<"w","i","k","i">>
K_who == <<"w","h","o">>
K_what == <<"w","h","a","t">>
K_when == <<"w","h","e","n">>
K_where == <<"w","h","e","r","e">>
K_why == <<"w","h","y">>
K_how == <<"h","o","w">>
K_which == <<"w","h","i","c","h">>
K_notepad == <<"n","o","t","e","p","a","d">>
K_text == <<"t","e","x","t">>
K_chrome == <<"c","h","r","o","m","e">>
K_browser == <<"b","r","o","w","s","e","r">>
K_firefox == <<"f","i","r","e","f","o","x">>
W_downloads == <<"d","o","w","n","l","o","a","d","s">>
W_my == <<"m","y">>
W_docs == <<"d","o","c","s">>
W_tmp == <<"t","m","p">>
W_vim == <<"v","i","m">>
W_turing == <<"t","u","r","i","n","g">>
W_is == <<"i","s">>
W_tla == <<"t","l","a">>
W_somewhat == <<"s","o","m","e","w","h","a","t">>
W_play == <<"p","l","a","y">>
W_music == <<"m","u","s","i","c">>
W_take == <<"t","a","k","e">>
W_a == <<"a">>
W_hello == <<"h","e","l","l","o">>
W_url == <<"h","t","t","p",":","/","/","x">>
W_Open == <<"O","p","e","n">>
W_Folder == <<"F","o","l","d","e","r">>
W_Shutdown == <<"S","h","u","t","d","o","w","n">>
W_Hey == <<"H","e","y">>
W_JarvisComma == <<"J","a","r","v","i","s",",">>
W_Jarvis == <<"J","a","r","v","i","s">>
W_jarvisx == <<"j","a","r","v","i","s","x">>
W_google == <<"h","t","t","p","s",":","/","/","w","w","w",".","g","o","o","g","l","e",".","c","o","m">>
W_jdotarvis == <<"j",".","a","r","v","i","s">>

(***************************************************************************)
(* State                                                                   *)
(***************************************************************************)
VARIABLES
    system,          \* platform.system().lower()
    google_search,   \* TRUE iff "from googlesearch import search" succeeded
    mic,             \* TRUE iff sr.Microphone() could be constructed
    cap,             \* self.cap: "None", "open" (isOpened()) or "released"
    camera_running,  \* self.camera_running
    camera_thread,   \* the frame pump threads (_camera_loop), each with its pc
    listening,       \* self.listening
    listen_thread,   \* the listening threads (_listening_loop), each with its pc
    ui,              \* the Tk main thread: idle, or inside on_command's process_command
    call,            \* the last call of process_command made on its own, as a record
    invoked,         \* the destructive helpers invoked by the calls before that one
    lookup,          \* the last google_first_snippet call made on its own
    wake             \* the last text given to the wakeword helpers, and what they returned

envVars == <<system, google_search, mic>>
cameraVars == <<cap, camera_running, camera_thread>>
callVars == <<call, invoked, lookup, wake>>
vars == <<system, google_search, mic, cap, camera_running, camera_thread,
          listening, listen_thread, ui, call, invoked, lookup, wake>>

(***************************************************************************)
(* Bounds of the model                                                     *)
(***************************************************************************)
\* candidate URLs the search provider yields in one query (the code asks for 5)
MaxUrls == 2

\* google_search(query, num_results=5)
NUM_RESULTS == 5

Min(a, b) == IF a < b THEN a ELSE b

(***************************************************************************)
(* Collaborator calls and their results                                    *)
(***************************************************************************)
\* one call of an external primitive, made by function `by`
Ev(by, op, arg) == [by |-> by, op |-> op, arg |-> arg, msg |-> ""]

\* a call that shows, logs or speaks a message; arg is what the f-string embeds
Msg(by, op, msg, arg) == [by |-> by, op |-> op, arg |-> arg, msg |-> msg]

\* Optional text: None, or a str
None == [some |-> FALSE, text |-> <<>>]
Some(t) == [some |-> TRUE, text |-> t]
\* `is not None` in place of truthiness: an empty text counts as an answer
IsNotNone(o) == o.some

\* Python truthiness of an Optional[str]
Truthy(o) == o.some /\ o.text # <<>>

\* The result of one run of a helper: the primitive calls it made, whether it let an
\* exception propagate, its return value (ok: a bool or the first of a pair; msg: the
\* second of a pair; val: an Optional[str]) and whether it failed: every primitive it
\* tried raised or gave nothing (webbrowser.open returns a bool and is taken not to
\* raise).
Res(events, raised, ok, msg, val, failed) ==
    [events |-> events, raised |-> raised, ok |-> ok, msg |-> msg, val |-> val,
     failed |-> failed]

WikiSummary == <<"S">>
PageTitle == <<"T">>
PageSnippet == <<"P">>
HomeDir == <<"/","h","o","m","e">>
SavePath == <<"f",".","j","p","g">>
Url(i) == <<"u", <<"1","2","3","4","5">>[i]>>

\* search_wikipedia: wikipedia.summary returns text (possibly empty) or raises;
\* every exception becomes None
search_wikipedia(query) ==
    LET e == <<Ev("search_wikipedia", "wikipedia.summary", query)>> IN
    { Res(e, FALSE, TRUE, "", Some(WikiSummary), FALSE),
      Res(e, FALSE, TRUE, "", Some(<<>>), FALSE),
      Res(e, FALSE, FALSE, "", None, TRUE) }

\* what requests.get and the page parse give for one candidate URL: an exception;
\* a status that is not 2xx; a 2xx status other than 200 (the page has a title and a
\* paragraph); or status 200 and a page with a title and a paragraph ("snippet"),
\* with a title only ("nosnippet"), with a paragraph only ("untitled"), with neither
\* ("blank")
FetchKinds == {"raise", "non200", "other2xx", "snippet", "nosnippet", "untitled", "blank"}

\* the lists of candidates URL discovery can yield, each with what fetching it gives
LookupSeqs == UNION {[1..n -> FetchKinds] : n \in 0..NUM_RESULTS}

\* the fetches that differ for the caller of google_first_snippet, and the lists of
\* candidates of the calls process_command makes
DispatchFetchKinds == {"raise", "non200", "snippet", "nosnippet"}
FetchSeqs == UNION {[1..n -> DispatchFetchKinds] : n \in 0..Min(NUM_RESULTS, MaxUrls)}

\* f"{title}\n\n{snippet}\n\nSource: {url}" or f"{title}\n\nSource: {url}"
PageText(kind, url) ==
    LET src == <<"\n","\n","S","o","u","r","c","e",":"," ">> \o url
        title == IF kind \in {"snippet", "nosnippet"} THEN PageTitle ELSE url
    IN IF kind \in {"snippet", "untitled"}
       THEN title \o <<"\n","\n">> \o PageSnippet \o src
       ELSE title \o src

\* the for loop of google_first_snippet over urls[i..]
RECURSIVE FetchLoop(_, _, _)
FetchLoop(fs, i, events) ==
    IF i > Len(fs) THEN Res(events, FALSE, FALSE, "", None, TRUE)
    ELSE LET e == events \o <<Msg("google_first_snippet", "requests.get", fs[i], Url(i))>> IN
         IF fs[i] \in {"raise", "non200", "other2xx"} THEN FetchLoop(fs, i + 1, e)
         ELSE Res(e, FALSE, TRUE, "", Some(PageText(fs[i], Url(i))), FALSE)

BrowserSearch(by, query) ==
    Msg(by, "webbrowser.open", "https://www.google.com/search?q={requote_uri(query)}", query)

\* what URL discovery gives: an exception, or the list of candidates
Discovered(fs) == [ok |-> TRUE, urls |-> fs]
DiscoveryRaises == [ok |-> FALSE, urls |-> <<>>]

\* google_first_snippet when URL discovery gives found
SnippetOf(query, found) ==
    IF ~google_search
    THEN Res(<<BrowserSearch("google_first_snippet", query)>>, FALSE, FALSE, "", None, TRUE)
    ELSE LET e == <<Ev("google_first_snippet", "google_search", query)>> IN
         IF ~found.ok
         THEN Res(e \o <<BrowserSearch("google_first_snippet", query)>>,
                  FALSE, FALSE, "", None, TRUE)
         ELSE FetchLoop(found.urls, 1, e)

google_first_snippet(query) ==
    { SnippetOf(query, found) : found \in {DiscoveryRaises} \cup {Discovered(fs) : fs \in FetchSeqs} }

(***************************************************************************)
(* OS control helpers                                                      *)
(***************************************************************************)
Systems == {"windows", "darwin", "linux"}

Popen(by, prog) == Ev(by, "subprocess.Popen", prog)

\* the loop over gedit, xed, kate and the xdg-open call after it
RECURSIVE TryCandidates(_, _)
TryCandidates(cands, events) ==
    IF cands = <<>>
    THEN LET e == events \o <<Popen("open_application", <<"x","d","g","-","o","p","e","n">>)>>
         IN { Res(e, FALSE, TRUE, "", None, FALSE), Res(e, TRUE, FALSE, "", None, TRUE) }
    ELSE LET e == events \o <<Popen("open_application", Head(cands))>>
         IN { Res(e, FALSE, TRUE, "", None, FALSE) }
            \cup TryCandidates(Tail(cands), e)

EditorCandidates == << <<"g","e","d","i","t">>, <<"x","e","d">>, <<"k","a","t","e">> >>

\* the try block that opens the application by its name
OpenByName(app_name) ==
    LET e == <<IF system = "windows"
               THEN Ev("open_application", "os.startfile", app_name)
               ELSE Popen("open_application", app_name)>>
    IN { Res(e, FALSE, TRUE, "", None, FALSE), Res(e, FALSE, FALSE, "", None, TRUE) }

open_application(app_name) ==
    LET app_name_lower == Lower(app_name) IN
    IF Contains(app_name_lower, K_notepad) \/ Contains(app_name_lower, K_text)
    THEN IF system = "windows"
         THEN LET e == <<Popen("open_application", K_notepad)>>
              IN { Res(e, FALSE, TRUE, "", None, FALSE), Res(e, TRUE, FALSE, "", None, TRUE) }
         ELSE TryCandidates(EditorCandidates, <<>>)
    ELSE IF Contains(app_name_lower, K_chrome)
    THEN LET e == <<Popen("open_application", K_chrome)>>
         IN { Res(e, FALSE, TRUE, "", None, FALSE),
              Res(e \o <<Ev("open_application", "webbrowser.open", W_google)>>,
                  FALSE, TRUE, "", None, FALSE) }
    ELSE IF Contains(app_name_lower, K_browser) \/ Contains(app_name_lower, K_firefox)
    THEN { Res(<<Ev("open_application", "webbrowser.open", W_google)>>,
               FALSE, TRUE, "", None, FALSE) }
    ELSE OpenByName(app_name)

open_folder(path) ==
    { Res(<<Ev("open_folder", "os.path.exists", path)>>, FALSE, FALSE,
          "Path does not exist", None, TRUE) }
    \cup
    LET e == <<Ev("open_folder", "os.path.exists", path),
               IF system = "windows" THEN Ev("open_folder", "os.startfile", path)
               ELSE Popen("open_folder", path)>>
    IN { Res(e, FALSE, TRUE, "Opened", None, FALSE),
         Res(e, FALSE, FALSE, "str(e)", None, TRUE) }

\* system_shutdown and system_restart differ in the command they launch and in
\* the message; what is "shutdown" or "restart"
SystemAction(what, msg, confirm) ==
    IF ~confirm THEN { Res(<<>>, FALSE, FALSE, "Confirmation required", None, FALSE) }
    ELSE LET e == <<Popen(what, K_shutdown)>>
         IN { Res(e, FALSE, TRUE, msg, None, FALSE),
              Res(e, FALSE, FALSE, "str(e)", None, TRUE) }

system_shutdown(confirm) == SystemAction("system_shutdown", "Shutdown initiated", confirm)

system_restart(confirm) == SystemAction("system_restart", "Restart initiated", confirm)

(***************************************************************************)
(* capture_photo                                                           *)
(***************************************************************************)
\* one run of a branch or of capture_photo: the calls made, whether an exception
\* propagated, and for each helper called what it returned
Run(events, raised, helpers) == [events |-> events, raised |-> raised, helpers |-> helpers]

Helper(fn, r) ==
    [fn |-> fn, failed |-> r.failed, ok |-> r.ok, val |-> r.val, raised |-> r.raised]

capture_photo ==
    IF cap # "open"
    THEN { Run(<<Msg("capture_photo", "messagebox.showwarning", "Camera not running.", <<>>)>>,
               FALSE, <<>>) }
    ELSE LET rd == <<Ev("capture_photo", "cap.read", <<>>)>>
             dlg == rd \o <<Ev("capture_photo", "filedialog.asksaveasfilename", <<>>)>>
             wr == dlg \o <<Ev("capture_photo", "cv2.imwrite", SavePath)>>
         IN { Run(rd \o <<Msg("capture_photo", "messagebox.showwarning",
                              "Unable to capture photo.", <<>>)>>,
                  FALSE, <<>>),
              Run(dlg, FALSE, <<>>),
              Run(wr \o <<Msg("capture_photo", "log_message", "Photo saved to {path}", SavePath),
                          Msg("capture_photo", "speak", "Photo saved.", <<>>)>>, FALSE, <<>>),
              Run(wr, TRUE, <<>>) }

(***************************************************************************)
(* process_command: the nine rules in the order of the source              *)
(***************************************************************************)
PC == "process_command"
Log(msg, arg) == Msg(PC, "log_message", msg, arg)
Speak(msg, arg) == Msg(PC, "speak", msg, arg)

\* the words of a question, "what" forgotten
InterrogativesButWhat == {K_who, K_when, K_where, K_why, K_how, K_which}

Interrogatives == {K_who, K_what, K_when, K_where, K_why, K_how, K_which}

\* a confirmation that outlives its command: the call before this one confirmed
ConfirmedCarried(text_lower) ==
    \/ Contains(text_lower, K_confirm) \/ Contains(text_lower, K_yes)
    \/ \E i \in DOMAIN call.events :
          call.events[i].op \in {"system_shutdown", "system_restart"}

\* `"confirm" in text_lower or "yes" in text_lower`
Confirmed(text_lower) == Contains(text_lower, K_confirm) \/ Contains(text_lower, K_yes)

\* the condition of the i-th if of process_command; the last block has none
Matches(i, text_lower) ==
    CASE i = 1 -> StartsWith(text_lower, K_open \o <<" ">> \o K_folder)
                  \/ StartsWith(text_lower, K_open \o <<" ">> \o K_directory)
      [] i = 2 -> StartsWith(text_lower, K_open \o <<" ">>)
                  \/ StartsWith(text_lower, K_launch \o <<" ">>)
      [] i = 3 -> Contains(text_lower, K_shutdown)
      [] i = 4 -> Contains(text_lower, K_restart) \/ Contains(text_lower, K_reboot)
      [] i = 5 -> Contains(text_lower, K_screenshot)
                  \/ Contains(text_lower, K_screen \o <<" ">> \o K_shot)
      [] i = 6 -> Contains(text_lower, K_capture)
                  /\ (Contains(text_lower, K_photo) \/ Contains(text_lower, K_picture))
      [] i = 7 -> StartsWith(text_lower, K_wikipedia \o <<" ">>)
                  \/ StartsWith(text_lower, K_wiki \o <<" ">>)
      [] i = 8 -> \E w \in Range(SplitWords(text_lower)) : w \in Interrogatives
      [] OTHER -> TRUE

\* `parts[2] if len(parts) >= 3 else os.path.expanduser("~")` on parts = text.split(" ", 2)
FolderPath(text) ==
    LET parts == SplitSpace(text, 2) IN IF Len(parts) >= 3 THEN parts[3] ELSE HomeDir

\* text.split(" ", 1)[1]
AfterFirstSpace(text) == SplitSpace(text, 1)[2]

OpenFolderBranch(text) ==
    LET path == FolderPath(text) IN
    { Run(<<Ev(PC, "open_folder", path)>> \o r.events
          \o (IF r.ok
              THEN <<Log("Opened folder: {path}", path), Speak("Opened folder.", <<>>)>>
              ELSE <<Log("Failed to open folder: {msg}", <<>>),
                     Speak("I could not open that folder.", <<>>)>>),
          FALSE, <<Helper("open_folder", r)>>) : r \in open_folder(path) }

OpenBranch(text) ==
    LET target == AfterFirstSpace(text) IN
    IF StartsWith(target, K_http)
    THEN { Run(<<Ev(PC, "webbrowser.open", target), Speak("Opening browser.", <<>>)>>,
               FALSE, <<>>) }
    ELSE { Run(<<Ev(PC, "open_application", target)>> \o r.events
               \o (IF r.raised THEN <<>>
                   ELSE IF r.ok
                   THEN <<Log("Opened application: {target}", target),
                          Speak("Opening {target}", target)>>
                   ELSE <<Log("Failed to open application: {target}", target),
                          Speak("I could not open that application.", <<>>)>>),
               r.raised, <<Helper("open_application", r)>>) : r \in open_application(target) }

ShutdownBranch(text_lower) ==
    IF Confirmed(text_lower)
    THEN { Run(<<Ev(PC, "system_shutdown", <<>>)>> \o r.events
               \o <<Log("{msg}", <<>>), Speak("Shutting down. Goodbye.", <<>>)>>,
               FALSE, <<Helper("system_shutdown", r)>>) : r \in system_shutdown(TRUE) }
    ELSE { Run(<<Log("Shutdown requested - confirmation required. Say 'shutdown confirm' to proceed.", <<>>),
                 Speak("Shutdown requested. Say shutdown confirm to proceed.", <<>>)>>,
               FALSE, <<>>) }

RestartBranch(text_lower) ==
    IF Confirmed(text_lower)
    THEN { Run(<<Ev(PC, "system_restart", <<>>)>> \o r.events
               \o <<Log("{msg}", <<>>), Speak("Restarting now.", <<>>)>>,
               FALSE, <<Helper("system_restart", r)>>) : r \in system_restart(TRUE) }
    ELSE { Run(<<Log("Restart requested - confirmation required. Say 'restart confirm' to proceed.", <<>>),
                 Speak("Restart requested. Say restart confirm to proceed.", <<>>)>>,
               FALSE, <<>>) }

ScreenshotBranch ==
    LET grab == <<Ev(PC, "ImageGrab.grab", <<>>)>>
        dlg == grab \o <<Ev(PC, "filedialog.asksaveasfilename", <<>>)>>
        save == dlg \o <<Ev(PC, "img.save", SavePath)>>
        failed == <<Log("Screenshot failed: {e}", <<>>),
                    Speak("I could not take a screenshot.", <<>>)>>
    IN { Run(grab \o failed, FALSE, <<>>),
         Run(dlg \o <<Log("Screenshot cancelled.", <<>>)>>, FALSE, <<>>),
         Run(save \o <<Log("Screenshot saved to {path}", SavePath),
                       Speak("Screenshot saved.", <<>>)>>, FALSE, <<>>),
         Run(save \o failed, FALSE, <<>>) }

CapturePhotoBranch ==
    { Run(<<Ev(PC, "capture_photo", <<>>)>> \o r.events, r.raised, <<>>) : r \in capture_photo }

WikiBranch(text) ==
    LET q == AfterFirstSpace(text)
        pre == <<Log("Searching Wikipedia for: {q}", q),
                 Speak("Searching Wikipedia for {q}", q),
                 Ev(PC, "search_wikipedia", q)>>
    IN UNION {
         IF Truthy(a.val)
         THEN { Run(pre \o a.events
                    \o <<Log("Wikipedia: {ans}", a.val.text), Speak("{ans}", a.val.text)>>,
                    FALSE, <<Helper("search_wikipedia", a)>>) }
         ELSE { Run(pre \o a.events
                    \o <<Log("No Wikipedia result.", <<>>),
                         Speak("I could not find a wikipedia entry. I'll search the web.", <<>>),
                         Ev(PC, "google_first_snippet", q)>>
                    \o w.events
                    \o (IF Truthy(w.val)
                        THEN <<Log("{web_ans}", w.val.text), Speak("{web_ans}", w.val.text)>>
                        ELSE <<Speak("I couldn't find an answer.", <<>>)>>),
                    FALSE,
                    <<Helper("search_wikipedia", a), Helper("google_first_snippet", w)>>)
                : w \in google_first_snippet(q) }
         : a \in search_wikipedia(q) }

QuestionBranch(text) ==
    LET pre == <<Log("Question detected: {text}", text),
                 Speak("Let me look that up.", <<>>),
                 Ev(PC, "search_wikipedia", text)>>
    IN UNION {
         IF Truthy(a.val)
         THEN { Run(pre \o a.events
                    \o <<Log("Wikipedia: {ans}", a.val.text), Speak("{ans}", a.val.text)>>,
                    FALSE, <<Helper("search_wikipedia", a)>>) }
         ELSE { Run(pre \o a.events \o <<Ev(PC, "google_first_snippet", text)>> \o w.events
                    \o (IF Truthy(w.val)
                        THEN <<Log("{web_ans}", w.val.text), Speak("{web_ans}", w.val.text)>>
                        ELSE <<BrowserSearch(PC, text),
                               Speak("I opened the browser with search results.", <<>>)>>),
                    FALSE,
                    <<Helper("search_wikipedia", a), Helper("google_first_snippet", w)>>)
                : w \in google_first_snippet(text) }
         : a \in search_wikipedia(text) }

GenericSearchBranch(text) ==
    LET pre == <<Log("No direct action matched. Searching web for: {text}", text),
                 Speak("Searching the web for {text}", text)>>
        fallback == <<BrowserSearch(PC, text),
                      Speak("I opened the browser with search results.", <<>>)>>
        gs == <<Ev(PC, "google_search", text)>>
    IN IF ~google_search THEN { Run(pre \o fallback, FALSE, <<>>) }
       ELSE { Run(pre \o gs \o fallback, FALSE, <<>>),
              Run(pre \o gs \o <<Ev(PC, "webbrowser.open", Url(1)),
                                 Log("Opened {urls[0]}", Url(1)),
                                 Speak("I opened the first result in your browser.", <<>>)>>,
                  FALSE, <<>>) }

\* the body of the i-th block
Branch(i, text, text_lower) ==
    CASE i = 1 -> OpenFolderBranch(text)
      [] i = 2 -> OpenBranch(text)
      [] i = 3 -> ShutdownBranch(text_lower)
      [] i = 4 -> RestartBranch(text_lower)
      [] i = 5 -> ScreenshotBranch
      [] i = 6 -> CapturePhotoBranch
      [] i = 7 -> WikiBranch(text)
      [] i = 8 -> QuestionBranch(text)
      [] OTHER -> GenericSearchBranch(text)

NumRules == 9

\* a block left without a return, falling through to the next test
ReturnsButShutdown(i) == i \in 1..NumRules /\ i # 3

\* whether control leaves process_command after the i-th block: each of the first
\* eight ends in return on every path, and the ninth ends the function
Returns(i) == i \in 1..NumRules

\* one call of process_command: the blocks entered, in order, and what they did
Call(text, branches, run) ==
    [done |-> TRUE, text |-> text, branches |-> branches, events |-> run.events,
     raised |-> run.raised, helpers |-> run.helpers]

NoRun == Run(<<>>, FALSE, <<>>)

\* the generic open/launch test placed before the open folder test
RuleOrderOpenFirst == <<2, 1, 3, 4, 5, 6, 7, 8, 9>>

\* the blocks in the order process_command tests them
RuleOrder == <<1, 2, 3, 4, 5, 6, 7, 8, 9>>

\* process_command from its k-th block on
RECURSIVE RunRules(_, _, _)
RunRules(k, text, text_lower) ==
    IF k > Len(RuleOrder) THEN { [branches |-> <<>>, run |-> NoRun] }
    ELSE LET i == RuleOrder[k] IN
         IF ~Matches(i, text_lower) THEN RunRules(k + 1, text, text_lower)
         ELSE UNION {
                IF b.raised \/ Returns(i)
                THEN { [branches |-> <<i>>, run |-> b] }
                ELSE { [branches |-> <<i>> \o rest.branches,
                        run |-> Run(b.events \o rest.run.events, rest.run.raised,
                                    b.helpers \o rest.run.helpers)]
                       : rest \in RunRules(k + 1, text, text_lower) }
                : b \in Branch(i, text, text_lower) }

\* every way one call process_command(arg) can go
process_command(arg) ==
    LET text == Strip(arg) IN
    IF text = <<>> THEN { Call(arg, <<>>, NoRun) }
    ELSE { Call(arg, r.branches, r.run) : r \in RunRules(1, text, Strip(Lower(text))) }

(***************************************************************************)
(* Camera (start_camera, stop_camera, _camera_loop)                        *)
(***************************************************************************)
\* the frame pump threads: start_camera creates one when none is left running
CameraThreads == {"c1"}

\* the first thread that is not running: the thread object start_camera creates
NewCameraThread ==
    CHOOSE c \in CameraThreads :
      camera_thread[c] = "none" /\ (c = "c1" \/ camera_thread["c1"] # "none")

start_camera ==
    /\ ui.pc = "idle"
    /\ ~camera_running
    /\ \E c \in CameraThreads : camera_thread[c] = "none"
    /\ \/ /\ cap' = "closed"          \* VideoCapture could not open the device
          /\ UNCHANGED <<camera_running, camera_thread>>
       \/ /\ cap' = "open"
          /\ camera_running' = TRUE
          /\ camera_thread' = [camera_thread EXCEPT ![NewCameraThread] = "loop"]
    /\ UNCHANGED <<envVars, listening, listen_thread, ui, callVars>>

stop_camera ==
    /\ ui.pc = "idle"
    /\ camera_running
    /\ camera_running' = FALSE
    /\ UNCHANGED <<envVars, cap, camera_thread, listening, listen_thread, ui, callVars>>

\* the loop condition of _camera_loop fails: the thread releases self.cap and ends
camera_loop_exit(c) ==
    /\ camera_thread[c] = "loop"
    /\ ~(camera_running /\ cap = "open")
    /\ cap' = IF cap = "None" THEN "None" ELSE "closed"
    /\ camera_thread' = [camera_thread EXCEPT ![c] = "none"]
    /\ UNCHANGED <<envVars, camera_running, listening, listen_thread, ui, callVars>>

(***************************************************************************)
(* The dispatcher alone: any sequence of process_command calls             *)
(***************************************************************************)
Commands ==
    { <<>>,
      <<" ">>,
      Join(<<K_open, K_folder, W_downloads>>),
      Join(<<K_open, K_folder>>),
      Join(<<W_Open, W_Folder, W_my, W_docs>>),
      Join(<<K_open, K_directory, W_tmp>>),
      Join(<<K_open, K_folder, K_shutdown, K_confirm>>),
      Join(<<K_open, K_notepad>>),
      Join(<<K_open, K_chrome>>),
      Join(<<K_launch, K_firefox>>),
      Join(<<K_open, W_vim>>),
      Join(<<K_open, W_url>>),
      Join(<<K_open, K_shutdown>>),
      Join(<<K_open, K_shutdown, K_confirm>>),
      Join(<<K_launch, K_restart>>),
      Join(<<K_launch, K_restart, K_confirm>>),
      K_shutdown,
      Join(<<K_shutdown, K_confirm>>),
      Join(<<K_yes, W_Shutdown>>),
      Join(<<W_Shutdown, K_restart, K_confirm>>),
      K_restart,
      Join(<<K_restart, K_confirm>>),
      Join(<<K_reboot, K_yes>>),
      K_confirm,
      Join(<<W_take, K_screenshot>>),
      Join(<<K_screen, K_shot>>),
      Join(<<K_capture, K_photo>>),
      Join(<<K_capture, W_a, K_picture>>),
      Join(<<K_wiki, W_turing>>),
      Join(<<K_wikipedia, K_restart>>),
      Join(<<K_what, W_is, W_tla>>),
      Join(<<K_what, W_is, W_a, K_screenshot>>),
      W_somewhat,
      Join(<<W_play, W_music>>) }

\* the wakeword helpers applied to t: normalize_text (once and twice), has_wakeword
\* and strip_wakeword
Wake(t) ==
    [done |-> TRUE, t |-> t, norm |-> normalize_text(t),
     renorm |-> normalize_text(normalize_text(t)),
     has |-> has_wakeword(t), stripped |-> strip_wakeword(t)]

NoWake == [Wake(<<>>) EXCEPT !.done = FALSE]

\* a call of google_first_snippet: what URL discovery gives and what is returned
Lookup(found, res) == [done |-> TRUE, found |-> found, res |-> res]

NoLookup == [done |-> FALSE, found |-> DiscoveryRaises, res |-> Res(<<>>, FALSE, FALSE, "", None, FALSE)]

\* before the first call
NoCall == [Call(<<>>, <<>>, NoRun) EXCEPT !.done = FALSE]

ListenThreads == {"t1", "t2"}

\* a listening thread: where it is in _listening_loop ("none": not running), the
\* utterance captured in the current iteration, the text passed to process_command;
\* and, of the current iteration, what the last listen() returned (heard), what the
\* loop spoke (said) and the time.sleep it made, in tenths of a second (slept);
\* stopped records that self.listening was cleared since the thread was started
ThreadAt(pc, txt, cmd) ==
    [pc |-> pc, txt |-> txt, cmd |-> cmd, heard |-> None, said |-> "", slept |-> 0,
     stopped |-> FALSE]
ThreadIdle == ThreadAt("none", <<>>, <<>>)

\* the Tk main thread: where it is, the text of the entry and the text on_command
\* passes to process_command
UiIdle == [pc |-> "idle", txt |-> <<>>, cmd |-> <<>>]

\* the camera as start_camera leaves it: never started, started, or failed to open
CameraStates ==
    { [cap |-> "None", running |-> FALSE, thread |-> "none"],
      [cap |-> "open", running |-> TRUE, thread |-> "loop"],
      [cap |-> "closed", running |-> FALSE, thread |-> "none"] }

\* what the calls are made in: every platform, the googlesearch import failed or
\* not, every state of the camera, each varied with the others held
DispatchEnvs ==
    { [system |-> s, google_search |-> TRUE, cam |-> cam] :
        s \in Systems, cam \in {c \in CameraStates : c.cap = "None"} }
    \cup { [system |-> "linux", google_search |-> g, cam |-> cam] :
             g \in BOOLEAN, cam \in {c \in CameraStates : c.cap = "None"} }
    \cup { [system |-> "linux", google_search |-> TRUE, cam |-> cam] : cam \in CameraStates }

InitDispatch ==
    /\ \E env \in DispatchEnvs :
         /\ system = env.system
         /\ google_search = env.google_search
         /\ cap = env.cam.cap
         /\ camera_running = env.cam.running
         /\ camera_thread =
              [c \in CameraThreads |-> IF c = "c1" THEN env.cam.thread ELSE "none"]
    /\ mic = TRUE
    /\ listening = FALSE
    /\ listen_thread = [t \in ListenThreads |-> ThreadIdle]
    /\ ui = UiIdle
    /\ call = NoCall
    /\ invoked = {}
    /\ lookup = NoLookup
    /\ wake = NoWake

Destructive == {"system_shutdown", "system_restart"}

\* the helpers process_command itself called during call c
Called(c) == {c.events[i].op : i \in {j \in DOMAIN c.events : c.events[j].by = PC}}

\* process_command(text) runs from its first line to its return or to the
\* exception it lets through
Dispatch(text) ==
    /\ call' \in process_command(text)
    /\ invoked' = invoked \cup (Called(call) \cap Destructive)
    /\ UNCHANGED <<envVars, cameraVars, listening, listen_thread, ui, lookup, wake>>

NextDispatch == \E text \in Commands : Dispatch(text)

SpecDispatch == InitDispatch /\ [][NextDispatch]_vars

(***************************************************************************)
(* The web lookup alone: google_first_snippet                              *)
(***************************************************************************)
LookupQuery == W_turing

\* what URL discovery gives is chosen; nothing else of the program is involved
InitLookup ==
    /\ system = "linux"
    /\ google_search \in BOOLEAN
    /\ mic = TRUE
    /\ cap = "None"
    /\ camera_running = FALSE
    /\ camera_thread = [c \in CameraThreads |-> "none"]
    /\ listening = FALSE
    /\ listen_thread = [t \in ListenThreads |-> ThreadIdle]
    /\ ui = UiIdle
    /\ call = NoCall
    /\ invoked = {}
    /\ wake = NoWake
    /\ \E found \in {DiscoveryRaises} \cup {Discovered(fs) : fs \in LookupSeqs} :
         lookup = [NoLookup EXCEPT !.found = found]

\* google_first_snippet is called
WebLookup ==
    /\ ~lookup.done
    /\ lookup' = Lookup(lookup.found, SnippetOf(LookupQuery, lookup.found))
    /\ UNCHANGED <<envVars, cameraVars, listening, listen_thread, ui, call, invoked, wake>>

NextLookup == WebLookup

SpecLookup == InitLookup /\ [][NextLookup]_vars

(***************************************************************************)
(* The wakeword helpers alone: normalize_text, has_wakeword, strip_wakeword *)
(***************************************************************************)
\* the texts given to the helpers: what comes before the wakeword, its "hey", its
\* "jarvis", the separators after it and the rest, each drawn from a few spellings
WakeLeads == { <<>>, <<" ">>, <<"!">> }
WakeHeys ==
    { <<>>,
      W_Hey \o <<" ">>,
      K_hey \o <<",", " ">>,
      <<"H","E","Y",",",","," "," ">>,
      W_Hey \o <<"!", " ">>,
      K_hey }
WakeNames == { <<>>, K_jarvis, W_Jarvis, <<"J","A","R","V","I","S">>, W_jdotarvis, W_jarvisx }
WakeSeparators == { <<>>, <<" ">>, <<",", " ">>, <<":", "-">>, <<".", " ">> }
WakeRests ==
    { <<>>,
      Join(<<K_open, K_chrome>>),
      <<"W","h","a","t","'","s"," ","t","h","e"," ","w","e","a","t","h","e","r">>,
      <<IDot, "x", " ">> }

WakeTexts ==
    { l \o h \o n \o p \o r :
        l \in WakeLeads, h \in WakeHeys, n \in WakeNames, p \in WakeSeparators,
        r \in WakeRests }

\* a text is chosen; nothing else of the program is involved
InitWake ==
    /\ system = "linux"
    /\ google_search = TRUE
    /\ mic = TRUE
    /\ cap = "None"
    /\ camera_running = FALSE
    /\ camera_thread = [c \in CameraThreads |-> "none"]
    /\ listening = FALSE
    /\ listen_thread = [t \in ListenThreads |-> ThreadIdle]
    /\ ui = UiIdle
    /\ call = NoCall
    /\ invoked = {}
    /\ lookup = NoLookup
    /\ \E t \in WakeTexts : wake = [NoWake EXCEPT !.t = t]

\* the helpers are called with the chosen text
WakewordHelpers ==
    /\ ~wake.done
    /\ wake' = Wake(wake.t)
    /\ UNCHANGED <<envVars, cameraVars, listening, listen_thread, ui, call, invoked, lookup>>

NextWake == WakewordHelpers

SpecWake == InitWake /\ [][NextWake]_vars

(***************************************************************************)
(* The application: the Tk main thread, the listening threads, the camera  *)
(***************************************************************************)
\* what the recognizer can return for a captured phrase
Utterances ==
    { Join(<<W_Hey, W_Jarvis>>),
      Join(<<W_Hey, W_JarvisComma, K_open, K_notepad>>),
      Join(<<W_Jarvis, K_capture, K_photo>>),
      Join(<<K_open, K_notepad>>),
      W_hello }

\* what the user can type in the entry
Typed ==
    { <<>>,
      Join(<<K_open, K_notepad>>),
      Join(<<W_Hey, W_Jarvis>>),
      Join(<<W_Hey, W_Jarvis, K_wiki, W_turing>>),
      K_shutdown }

\* the platforms and the outcome of the googlesearch import the application is
\* started with: the threads see them only through what process_command does
AppSystems == {"windows", "linux"}

Init ==
    /\ system \in AppSystems
    /\ google_search = TRUE
    /\ mic \in BOOLEAN
    /\ cap = "None"
    /\ camera_running = FALSE
    /\ camera_thread = [c \in CameraThreads |-> "none"]
    /\ listening = FALSE
    /\ listen_thread = [t \in ListenThreads |-> ThreadIdle]
    /\ ui = UiIdle
    /\ call = NoCall
    /\ invoked = {}
    /\ lookup = NoLookup
    /\ wake = NoWake

\* what listen() can return: None or the recognized text
Captures == {None, Some(<<>>)} \cup {Some(u) : u \in Utterances}

\* listen(): None without a microphone, on a timeout and on a recognition error,
\* else the recognized text
listen == IF mic THEN Captures ELSE {None}

\* the threads that are in _listening_loop
Alive == {t \in ListenThreads : listen_thread[t].pc \notin {"none", "crashed"}}

\* self.listening was cleared: the threads in the loop are to stop
StopRequested(threads) ==
    [t \in ListenThreads |->
       IF t \in Alive THEN [threads[t] EXCEPT !.stopped = TRUE] ELSE threads[t]]

\* the first thread that is not running: the thread object toggle_listening creates
NewThread ==
    CHOOSE t \in ListenThreads :
      /\ listen_thread[t].pc \in {"none", "crashed"}
      /\ t = "t1" \/ listen_thread["t1"].pc \notin {"none", "crashed"}

toggle_listening ==
    /\ ui.pc = "idle"
    /\ IF ~listening
       THEN /\ Alive # ListenThreads
            /\ listening' = TRUE
            /\ listen_thread' = [listen_thread EXCEPT ![NewThread] = ThreadAt("top", <<>>, <<>>)]
       ELSE /\ listening' = FALSE
            /\ listen_thread' = StopRequested(listen_thread)
    /\ UNCHANGED <<envVars, cameraVars, ui, callVars>>

\* thread t goes on to next
Goes(t, next) ==
    listen_thread' =
      [listen_thread EXCEPT ![t] = [next EXCEPT !.stopped = listen_thread[t].stopped]]

\* `while self.listening:` and, when it holds, the call of listen(timeout=6, ...)
loop_test(t) ==
    /\ listen_thread[t].pc = "top"
    /\ listen_thread' = [listen_thread EXCEPT
                           ![t] = IF listening
                                  THEN [ThreadAt("listen", <<>>, <<>>)
                                          EXCEPT !.stopped = listen_thread[t].stopped]
                                  ELSE ThreadIdle]
    /\ UNCHANGED <<envVars, cameraVars, listening, ui, callVars>>

\* time.sleep(0.5) and time.sleep(0.6), in tenths of a second
Backoff == 5
FollowPause == 6

\* the loop without its wakeword test: every captured text is stripped and dispatched
AfterCaptureUngated(txt) ==
    IF txt.some /\ txt.text # <<>>
    THEN [ThreadAt("dispatch", txt.text,
                   IF strip_wakeword(txt.text) = <<>> THEN txt.text
                   ELSE strip_wakeword(txt.text))
            EXCEPT !.heard = txt]
    ELSE [ThreadAt("sleep", <<>>, <<>>) EXCEPT !.heard = txt, !.slept = Backoff]

\* the loop without its pause: a capture that yields nothing goes back to the test
AfterCaptureNoBackoff(txt) ==
    IF ~Truthy(txt) THEN [ThreadAt("top", <<>>, <<>>) EXCEPT !.heard = txt]
    ELSE IF has_wakeword(txt.text)
    THEN (IF strip_wakeword(txt.text) = <<>>
          THEN [ThreadAt("follow", txt.text, <<>>)
                  EXCEPT !.heard = txt, !.said = "Yes?", !.slept = FollowPause]
          ELSE [ThreadAt("dispatch", txt.text, strip_wakeword(txt.text))
                  EXCEPT !.heard = txt, !.said = "Processing your command."])
    ELSE [ThreadAt("top", <<>>, <<>>) EXCEPT !.heard = txt]

\* the body of the loop from the return of listen() to the next blocking call:
\* where the thread goes with the captured txt
AfterCapture(txt) ==
    IF ~Truthy(txt)
    THEN [ThreadAt("sleep", <<>>, <<>>) EXCEPT !.heard = txt, !.slept = Backoff]
    ELSE IF has_wakeword(txt.text)
    THEN LET command_text == strip_wakeword(txt.text) IN
         IF command_text = <<>>
         THEN [ThreadAt("follow", txt.text, <<>>)
                 EXCEPT !.heard = txt, !.said = "Yes?", !.slept = FollowPause]
         ELSE [ThreadAt("dispatch", txt.text, command_text)
                 EXCEPT !.heard = txt, !.said = "Processing your command."]
    ELSE [ThreadAt("top", <<>>, <<>>) EXCEPT !.heard = txt]

\* AfterCapture, computed once for every capture
AfterCaptureOf == [txt \in Captures |-> AfterCapture(txt)]

listen_returns(t) ==
    /\ listen_thread[t].pc = "listen"
    /\ \E txt \in listen : Goes(t, AfterCaptureOf[txt])
    /\ UNCHANGED <<envVars, cameraVars, listening, ui, callVars>>

\* time.sleep(0.5) returns: the end of the iteration
sleep_returns(t) ==
    /\ listen_thread[t].pc = "sleep"
    /\ Goes(t, ThreadAt("top", <<>>, <<>>))
    /\ UNCHANGED <<envVars, cameraVars, listening, ui, callVars>>

\* the follow-up listen(timeout=3, ...) returns
AfterFollowUp(txt, follow) ==
    IF Truthy(follow)
    THEN [ThreadAt("dispatch", txt, follow.text) EXCEPT !.heard = follow, !.said = "Yes?"]
    ELSE [ThreadAt("top", <<>>, <<>>) EXCEPT !.heard = follow]

follow_returns(t) ==
    /\ listen_thread[t].pc = "follow"
    /\ \E follow \in listen : Goes(t, AfterFollowUp(listen_thread[t].txt, follow))
    /\ UNCHANGED <<envVars, cameraVars, listening, ui, callVars>>

\* the rule of process_command that handles arg: the first whose test holds
\* (0: the text is blank and no rule is reached)
FirstRule(arg) ==
    LET text == Strip(arg)
        text_lower == Strip(Lower(text))
    IN IF text = <<>> THEN 0
       ELSE RuleOrder[CHOOSE k \in DOMAIN RuleOrder :
                        /\ Matches(RuleOrder[k], text_lower)
                        /\ \A j \in 1..(k - 1) : ~Matches(RuleOrder[j], text_lower)]

\* thread t, in process_command, is at self.cap.read() of capture_photo
ReadsFrame(cmd) == cap = "open" /\ FirstRule(cmd) = 6

\* process_command returns to the loop, or raises: the loop has no handler, so the
\* exception ends the thread
dispatch_returns(t) ==
    /\ listen_thread[t].pc = "dispatch"
    /\ ~ReadsFrame(listen_thread[t].cmd)
    /\ \E r \in process_command(listen_thread[t].cmd) :
         Goes(t, IF r.raised
                 THEN ThreadAt("crashed", <<>>, listen_thread[t].cmd)
                 ELSE ThreadAt("top", <<>>, <<>>))
    /\ UNCHANGED <<envVars, cameraVars, listening, ui, callVars>>

\* process_command calls capture_photo, which finds the camera open and calls
\* self.cap.read()
capture_photo_reads(t) ==
    /\ listen_thread[t].pc = "dispatch"
    /\ ReadsFrame(listen_thread[t].cmd)
    /\ Goes(t, [listen_thread[t] EXCEPT !.pc = "capture"])
    /\ UNCHANGED <<envVars, cameraVars, listening, ui, callVars>>

\* self.cap.read() returns and capture_photo runs to its end: it returns, or
\* cv2.imwrite raises and the exception ends the thread
capture_photo_returns(t) ==
    /\ listen_thread[t].pc = "capture"
    /\ \E raised \in BOOLEAN :
         Goes(t, IF raised
                 THEN ThreadAt("crashed", <<>>, listen_thread[t].cmd)
                 ELSE ThreadAt("top", <<>>, <<>>))
    /\ UNCHANGED <<envVars, cameraVars, listening, ui, callVars>>

\* the text on_command passes to process_command
TypedCommand(txt) == IF has_wakeword(txt) THEN
                         (IF strip_wakeword(txt) # <<>> THEN strip_wakeword(txt) ELSE txt)
                     ELSE txt

\* on_command up to the call of process_command: the text it passes for what the
\* entry holds, None when it returns without a call
CommandOf(entry) ==
    LET txt == Strip(entry) IN IF txt = <<>> THEN None ELSE Some(TypedCommand(txt))

\* CommandOf, computed once for every entry
CommandOfEntry == [entry \in Typed |-> CommandOf(entry)]

\* the Send button, up to the call of process_command
on_command ==
    /\ ui.pc = "idle"
    /\ \E entry \in Typed :
         ui' = IF CommandOfEntry[entry].some
               THEN [pc |-> "dispatch", txt |-> Strip(entry),
                     cmd |-> CommandOfEntry[entry].text]
               ELSE ui
    /\ UNCHANGED <<envVars, cameraVars, listening, listen_thread, callVars>>

\* process_command returns to on_command, or raises: Tk reports the exception of
\* a callback and goes on with the event loop, so both ways end in the idle loop
on_command_returns ==
    /\ ui.pc = "dispatch"
    /\ ui' = UiIdle
    /\ UNCHANGED <<envVars, cameraVars, listening, listen_thread, callVars>>

\* the Capture button: capture_photo on the Tk thread, up to self.cap.read()
\* (with no open camera it shows a warning and returns)
capture_button ==
    /\ ui.pc = "idle"
    /\ cap = "open"
    /\ ui' = [pc |-> "capture", txt |-> <<>>, cmd |-> <<>>]
    /\ UNCHANGED <<envVars, cameraVars, listening, listen_thread, callVars>>

\* self.cap.read() returns and capture_photo runs to its end
capture_button_returns ==
    /\ ui.pc = "capture"
    /\ ui' = UiIdle
    /\ UNCHANGED <<envVars, cameraVars, listening, listen_thread, callVars>>

\* the loop condition of _camera_loop holds: the thread calls self.cap.read()
camera_loop_reads(c) ==
    /\ camera_thread[c] = "loop"
    /\ camera_running /\ cap = "open"
    /\ camera_thread' = [camera_thread EXCEPT ![c] = "read"]
    /\ UNCHANGED <<envVars, cap, camera_running, listening, listen_thread, ui, callVars>>

\* self.cap.read() returns: the frame is shown, or not, and the thread sleeps
camera_read_returns(c) ==
    /\ camera_thread[c] = "read"
    /\ camera_thread' = [camera_thread EXCEPT ![c] = "loop"]
    /\ UNCHANGED <<envVars, cap, camera_running, listening, listen_thread, ui, callVars>>

\* the window is closed and the user confirms: both flags are cleared, the camera
\* is released, the window is destroyed and main returns, which ends the process
\* and with it the daemon threads
on_quit ==
    /\ ui.pc = "idle"
    /\ listening' = FALSE
    /\ camera_running' = FALSE
    /\ cap' = IF cap = "None" THEN "None" ELSE "closed"
    /\ ui' = [pc |-> "quit", txt |-> <<>>, cmd |-> <<>>]
    /\ listen_thread' = [t \in ListenThreads |-> ThreadIdle]
    /\ camera_thread' = [c \in CameraThreads |-> "none"]
    /\ UNCHANGED <<envVars, callVars>>

Next ==
    \/ toggle_listening
    \/ on_command
    \/ on_command_returns
    \/ capture_button
    \/ capture_button_returns
    \/ start_camera
    \/ stop_camera
    \/ on_quit
    \/ \E c \in CameraThreads : camera_loop_reads(c)
    \/ \E c \in CameraThreads : camera_read_returns(c)
    \/ \E c \in CameraThreads : camera_loop_exit(c)
    \/ \E t \in ListenThreads : loop_test(t)
    \/ \E t \in ListenThreads : listen_returns(t)
    \/ \E t \in ListenThreads : sleep_returns(t)
    \/ \E t \in ListenThreads : follow_returns(t)
    \/ \E t \in ListenThreads : dispatch_returns(t)
    \/ \E t \in ListenThreads : capture_photo_reads(t)
    \/ \E t \in ListenThreads : capture_photo_returns(t)

Spec == Init /\ [][Next]_vars

(***************************************************************************)
(* Properties of the dispatcher (under SpecDispatch)                       *)
(***************************************************************************)
\* the lowercased text of the last call
CallLower == Lower(call.text)

HasConfirmWord == Contains(CallLower, K_confirm) \/ Contains(CallLower, K_yes)

\* the last call began with "open " or "launch " (process_command trims its text)
OpenOrLaunch ==
    \/ StartsWith(Strip(CallLower), K_open \o <<" ">>)
    \/ StartsWith(Strip(CallLower), K_launch \o <<" ">>)

\* the last call did nothing but log and speak, and spoke msg
OnlySpoke(msg) ==
    /\ \A i \in DOMAIN call.events : call.events[i].op \in {"log_message", "speak"}
    /\ \E i \in DOMAIN call.events :
         call.events[i].op = "speak" /\ call.events[i].msg = msg

ShutdownRequest == "Shutdown requested. Say shutdown confirm to proceed."
RestartRequest == "Restart requested. Say restart confirm to proceed."

\* C1 as stated: system_shutdown is invoked in a call only if that call's lowercased
\* text contains "shutdown" and "confirm" or "yes", and every call whose text
\* contains "shutdown" without such a word only emits the confirmation request.
C1_ShutdownGateAnyText ==
    /\ "system_shutdown" \in Called(call)
         => Contains(CallLower, K_shutdown) /\ HasConfirmWord
    /\ Contains(CallLower, K_shutdown) /\ ~HasConfirmWord
         => OnlySpoke(ShutdownRequest)

\* C1 (amended): system_shutdown is invoked in a call only if that call's lowercased
\* text contains "shutdown" and also "confirm" or "yes", whatever the calls before it
\* were; a call whose text contains "shutdown" without such a word, and does not
\* begin with "open " or "launch ", only emits the confirmation request.
C1_ShutdownGate ==
    /\ "system_shutdown" \in Called(call)
         => Contains(CallLower, K_shutdown) /\ HasConfirmWord
    /\ Contains(CallLower, K_shutdown) /\ ~HasConfirmWord /\ ~OpenOrLaunch
         => OnlySpoke(ShutdownRequest)

\* an unconfirmed "shutdown" after a confirmed one: the request is only answered
C1_UnconfirmedAfterConfirmed ==
    /\ call.done
    /\ call.text = K_shutdown
    /\ "system_shutdown" \in invoked
    /\ "system_shutdown" \notin Called(call)
    /\ OnlySpoke(ShutdownRequest)

HasRestartWord == Contains(CallLower, K_restart) \/ Contains(CallLower, K_reboot)

\* C2 as stated: system_restart is invoked in a call only if that call's lowercased
\* text contains "restart" or "reboot" and "confirm" or "yes"; without such a word
\* the call only emits the restart confirmation request.
C2_RestartGateAnyText ==
    /\ "system_restart" \in Called(call) => HasRestartWord /\ HasConfirmWord
    /\ HasRestartWord /\ ~HasConfirmWord => OnlySpoke(RestartRequest)

\* C2 (amended): system_restart is invoked in a call only if that call's lowercased
\* text contains "restart" or "reboot" and also "confirm" or "yes"; a call whose text
\* contains "restart" or "reboot" without such a word, does not begin with "open "
\* or "launch " and does not contain "shutdown", only emits the restart confirmation
\* request.
C2_RestartGate ==
    /\ "system_restart" \in Called(call) => HasRestartWord /\ HasConfirmWord
    /\ HasRestartWord /\ ~HasConfirmWord /\ ~OpenOrLaunch
       /\ ~Contains(CallLower, K_shutdown)
         => OnlySpoke(RestartRequest)

\* an unconfirmed restart request after a confirmed one
C2_UnconfirmedAfterConfirmed ==
    /\ call.done
    /\ call.text = K_restart
    /\ "system_restart" \in invoked
    /\ "system_restart" \notin Called(call)
    /\ OnlySpoke(RestartRequest)

\* the text process_command works on
CallText == Strip(call.text)

\* the rules whose condition the last call's text satisfies
Matching == {i \in 1..NumRules : Matches(i, Strip(Lower(CallText)))}

\* the last call entered only the block of the earliest rule its text matches
FirstMatchOnly ==
    call.done /\ CallText # <<>>
      => \E i \in Matching : call.branches = <<i>> /\ \A j \in Matching : i <= j

OpenFolderText ==
    \/ StartsWith(Lower(CallText), K_open \o <<" ">> \o K_folder)
    \/ StartsWith(Lower(CallText), K_open \o <<" ">> \o K_directory)

\* the arguments of the calls of helper fn the last call made
ArgsOf(fn) ==
    {call.events[i].arg :
       i \in {j \in DOMAIN call.events : call.events[j].by = PC /\ call.events[j].op = fn}}

\* the third whitespace-delimited token, the home directory when there is none
ThirdToken(t) == IF Len(SplitWords(t)) >= 3 THEN SplitWords(t)[3] ELSE HomeDir

\* what follows the second space of t, the home directory when t has no two spaces
AfterSecondSpace(t) ==
    LET spaces == {i \in DOMAIN t : t[i] = " "} IN
    IF Cardinality(spaces) < 2 THEN HomeDir
    ELSE LET second == CHOOSE i \in spaces :
                           Cardinality({j \in spaces : j < i}) = 1
         IN SubSeq(t, second + 1, Len(t))

\* a text beginning with "open " or "launch " never reaches the shutdown and
\* restart helpers
OpenNeverDestructive == OpenOrLaunch => Called(call) \cap Destructive = {}

\* C3 as stated: only the block of the earliest matching rule runs; a text beginning
\* with "open folder" or "open directory" calls open_folder with its third
\* whitespace-delimited token (the home directory if absent) and never
\* open_application; a text beginning with "open " or "launch " never reaches
\* system_shutdown or system_restart.
C3_PrecedenceThirdToken ==
    /\ FirstMatchOnly
    /\ call.done /\ OpenFolderText
         => ArgsOf("open_folder") = {ThirdToken(CallText)}
            /\ ArgsOf("open_application") = {}
    /\ OpenNeverDestructive

\* C3 (amended): only the block of the earliest matching rule runs; a text beginning
\* with "open folder" or "open directory" calls open_folder with everything after
\* the second space of the trimmed text (the home directory if it has no second
\* space) and never open_application; a text beginning with "open " or "launch "
\* never reaches system_shutdown or system_restart.
C3_Precedence ==
    /\ FirstMatchOnly
    /\ call.done /\ OpenFolderText
         => ArgsOf("open_folder") = {AfterSecondSpace(CallText)}
            /\ ArgsOf("open_application") = {}
    /\ OpenNeverDestructive

\* "open folder shutdown confirm" satisfies rules 1, 2 and 3 and opens a folder
C3_OpenFolderWins ==
    /\ call.done
    /\ call.text = Join(<<K_open, K_folder, K_shutdown, K_confirm>>)
    /\ {1, 2, 3} \subseteq Matching
    /\ call.branches = <<1>>
    /\ ArgsOf("open_folder") = {Join(<<K_shutdown, K_confirm>>)}

\* C4 as stated: every call of process_command, for any text, runs exactly one of
\* the nine blocks.
C4_ExactlyOneBranchAnyText == call.done => Len(call.branches) = 1

\* C4 (amended): every call of process_command whose text is not blank runs exactly
\* one of the nine blocks; a call whose text is empty or only whitespace returns
\* before the first test and runs none.
C4_ExactlyOneBranch ==
    call.done =>
      IF CallText = <<>> THEN call.branches = <<>> /\ call.events = <<>>
      ELSE Len(call.branches) = 1 /\ call.branches[1] \in 1..NumRules

\* a text that satisfies the tests of rules 3, 4 and 9 ran the shutdown block only
C4_SeveralMatchOneRuns ==
    /\ call.done
    /\ call.text = Join(<<W_Shutdown, K_restart, K_confirm>>)
    /\ {3, 4, 9} \subseteq Matching
    /\ call.branches = <<3>>

OsActions == {"open_application", "open_folder", "system_shutdown", "system_restart"}

\* C7: the OS-action helpers fail closed: none lets an exception through, and one
\* under which every launch failed returns False.
C7_FailClosed ==
    \A i \in DOMAIN call.helpers :
      LET h == call.helpers[i] IN
      h.fn \in OsActions => ~h.raised /\ (h.failed => ~h.ok)

\* the positions in the last call's events of the calls of op made by function by
At(by, op) == {i \in DOMAIN call.events : call.events[i].by = by /\ call.events[i].op = op}

\* the last call was a knowledge query (the wikipedia/wiki rule or a question)
KnowledgeQuery == call.done /\ call.branches \in {<<7>>, <<8>>}

\* the texts the last call logged with message msg
Logged(msg) ==
    {call.events[i].arg :
       i \in {j \in At(PC, "log_message") : call.events[j].msg = msg}}

Found(val) == val.some /\ val.text # <<>>

\* C8: in a knowledge query the structured lookup is called first and once; the web
\* lookup is called if and only if the structured lookup returned nothing, and only
\* after the structured lookup has finished; the answer is the structured text if
\* there is one, else the web text if there is one, else none; and neither lookup
\* lets an exception through.
C8_ResolverChain ==
    KnowledgeQuery =>
      LET wiki == call.helpers[1]
          webCalled == At(PC, "google_first_snippet") # {}
      IN /\ Cardinality(At(PC, "search_wikipedia")) = 1
         /\ wiki.fn = "search_wikipedia"
         /\ Cardinality(At(PC, "google_first_snippet")) <= 1
         /\ \A g \in At(PC, "google_first_snippet") :
              /\ \A w \in At(PC, "search_wikipedia") : w < g
              /\ \A w \in At("search_wikipedia", "wikipedia.summary") : w < g
         /\ \A w \in At(PC, "search_wikipedia") :
              \A p \in DOMAIN call.events :
                call.events[p].by = "google_first_snippet" => w < p
         /\ webCalled <=> ~Found(wiki.val)
         /\ webCalled <=> Len(call.helpers) = 2
         /\ webCalled => call.helpers[2].fn = "google_first_snippet"
         /\ Logged("Wikipedia: {ans}") = IF Found(wiki.val) THEN {wiki.val.text} ELSE {}
         /\ Logged("{web_ans}") =
              IF webCalled /\ Found(call.helpers[2].val)
              THEN {call.helpers[2].val.text} ELSE {}
         /\ ~call.raised
         /\ \A i \in DOMAIN call.helpers :
              ~call.helpers[i].raised
              /\ (call.helpers[i].failed => ~call.helpers[i].val.some)

\* a question whose structured lookup found nothing and whose web lookup found a page
C8_WebAnswersAfterWikiFails ==
    /\ call.done
    /\ call.branches = <<8>>
    /\ Len(call.helpers) = 2
    /\ ~Found(call.helpers[1].val)
    /\ Found(call.helpers[2].val)
    /\ Logged("{web_ans}") = {call.helpers[2].val.text}

\* C9: the resolver stages never open a browser; a browser opened during a knowledge
\* query is opened by process_command, after both lookups found nothing.
C9_ResolverOpensNoBrowser ==
    KnowledgeQuery =>
      /\ At("search_wikipedia", "webbrowser.open") = {}
      /\ At("google_first_snippet", "webbrowser.open") = {}
      /\ At(PC, "webbrowser.open") # {}
           => /\ Len(call.helpers) = 2
              /\ ~Found(call.helpers[1].val)
              /\ ~Found(call.helpers[2].val)

QuestionWords ==
    { <<"w","h","o">>, <<"w","h","a","t">>, <<"w","h","e","n">>, <<"w","h","e","r","e">>,
      <<"w","h","y">>, <<"h","o","w">>, <<"w","h","i","c","h">> }

\* the last call was made with a question: a text that none of the rules 1 to 7
\* takes and of which one word is a question word
IsQuestion ==
    /\ call.done
    /\ Strip(call.text) # <<>>
    /\ LET text_lower == Strip(Lower(Strip(call.text)))
       IN /\ \A i \in 1..7 : ~Matches(i, text_lower)
          /\ \E i \in DOMAIN SplitWords(text_lower) : SplitWords(text_lower)[i] \in QuestionWords

\* the positions in the last call at which a browser was opened, by anyone
BrowserOpened == {i \in DOMAIN call.events : call.events[i].op = "webbrowser.open"}

\* C20: a question, and nothing else, is handled by the interrogative rule; the
\* structured lookup is called with the text, the web lookup with the same text if
\* and only if the structured lookup found nothing; process_command opens the browser
\* search for the text if and only if both lookups found nothing, once and after
\* both; and when one of the lookups succeeded nobody opens a browser.
C20_QuestionFallbackChain ==
    /\ IsQuestion <=> (call.done /\ call.branches = <<8>>)
    /\ IsQuestion =>
         LET text == Strip(call.text)
             wiki == call.helpers[1]
             webCalled == Len(call.helpers) = 2
             nothing == ~Found(wiki.val) /\ webCalled /\ ~Found(call.helpers[2].val)
         IN /\ wiki.fn = "search_wikipedia"
            /\ \A i \in At(PC, "search_wikipedia") : call.events[i].arg = text
            /\ Cardinality(At(PC, "search_wikipedia")) = 1
            /\ webCalled <=> ~Found(wiki.val)
            /\ webCalled <=> Cardinality(At(PC, "google_first_snippet")) = 1
            /\ \A i \in At(PC, "google_first_snippet") :
                 /\ call.events[i].arg = text
                 /\ \A w \in At(PC, "search_wikipedia") : w < i
            /\ Cardinality(At(PC, "webbrowser.open")) = (IF nothing THEN 1 ELSE 0)
            /\ \A b \in At(PC, "webbrowser.open") :
                 /\ call.events[b].arg = text
                 /\ \A i \in DOMAIN call.events :
                      call.events[i].by \in {"search_wikipedia", "google_first_snippet"}
                        => i < b
            /\ ~nothing => BrowserOpened = {}

\* a question that neither lookup answered: process_command opened the browser
C20_BrowserAsLastResort ==
    /\ IsQuestion
    /\ Len(call.helpers) = 2
    /\ ~Found(call.helpers[1].val)
    /\ ~Found(call.helpers[2].val)
    /\ At("google_first_snippet", "requests.get") # {}
    /\ At(PC, "webbrowser.open") # {}

(***************************************************************************)
(* Properties of the application (under Spec)                              *)
(***************************************************************************)
\* the threads that are inside process_command
Dispatching ==
    {t \in ListenThreads : listen_thread[t].pc = "dispatch"}
    \cup (IF ui.pc = "dispatch" THEN {"ui"} ELSE {})

\* C5: no two executions of process_command are in progress at the same time.
C5_OneDispatchAtATime == Cardinality(Dispatching) <= 1

\* C6: no failure raised while the listening loop handles an utterance ends the
\* loop: no listening thread is ended by an exception.
C6_LoopSurvivesFailures == \A t \in ListenThreads : listen_thread[t].pc # "crashed"

\* C10: a listening thread is inside process_command only in an iteration whose
\* captured utterance passed has_wakeword; an utterance that does not pass it is
\* dropped without a call.
C10_WakewordBeforeDispatch ==
    \A t \in ListenThreads :
      listen_thread[t].pc = "dispatch"
        => listen_thread[t].txt # <<>> /\ has_wakeword(listen_thread[t].txt)

\* a thread dispatching "open notepad" captured as "Hey Jarvis, open notepad"
C10_DispatchAfterWakeword ==
    \E t \in ListenThreads :
      /\ listen_thread[t].pc = "dispatch"
      /\ listen_thread[t].txt = Join(<<W_Hey, W_JarvisComma, K_open, K_notepad>>)
      /\ listen_thread[t].cmd = Join(<<K_open, K_notepad>>)

(***************************************************************************)
(* Properties of the wakeword helpers (under SpecWake)                     *)
(***************************************************************************)
\* p is a prefix of s
IsPrefix(p, s) == Len(p) <= Len(s) /\ \A i \in DOMAIN p : s[i] = p[i]

IsSeparator(c) == c \in {",", ":", "-"} \/ IsSpace(c)

\* u is "hey" in any letter case, then commas, then at least one whitespace character
IsHeyPart(u) ==
    /\ Len(u) >= 4
    /\ Lower(SubSeq(u, 1, 3)) = K_hey
    /\ \E k \in 3..(Len(u) - 1) :
         /\ \A i \in 4..k : u[i] = ","
         /\ \A i \in (k + 1)..Len(u) : IsSpace(u[i])

\* the lengths of the prefixes of s that are a wakeword: an optional "hey" part,
\* "jarvis" in any letter case and the whole run of separators after it
WakePrefixes(s) ==
    { n \in 0..Len(s) :
        \E h \in 0..n :
          /\ h = 0 \/ IsHeyPart(SubSeq(s, 1, h))
          /\ h + 6 <= n
          /\ Lower(SubSeq(s, h + 1, h + 6)) = K_jarvis
          /\ \A i \in (h + 7)..n : IsSeparator(s[i])
          /\ n = Len(s) \/ ~IsSeparator(s[n + 1]) }

HeyJarvisOpenChrome == Join(<<W_Hey, W_JarvisComma, K_open, K_chrome>>)
WhatsTheWeather ==
    <<"W","h","a","t","'","s"," ","t","h","e"," ","w","e","a","t","h","e","r">>

\* C14: for every text in which has_wakeword detects the wakeword, strip_wakeword
\* returns the text without its leading wakeword (optional "hey" with commas,
\* "jarvis" in any letter case, the separator run after it), trimmed; "jarvis"
\* gives the empty text and "Hey Jarvis, open chrome" gives "open chrome".
C14_StripRemovesDetectedWakeword ==
    wake.done =>
      /\ wake.has =>
           \E n \in WakePrefixes(Strip(wake.t)) :
             wake.stripped = Strip(Drop(Strip(wake.t), n))
      /\ wake.t = K_jarvis => wake.stripped = <<>>
      /\ wake.t = HeyJarvisOpenChrome => wake.stripped = Join(<<K_open, K_chrome>>)

\* C15: has_wakeword(t) is true if and only if the normalized text starts with
\* "hey jarvis" or with "jarvis", whatever follows the prefix ("jarvisx" matches);
\* it is false for the empty text and for "What's the weather".
C15_HasWakewordIffPrefix ==
    wake.done =>
      /\ wake.has <=> (IsPrefix(WAKEWORD, wake.norm) \/ IsPrefix(K_jarvis, wake.norm))
      /\ wake.t = <<>> => ~wake.has
      /\ wake.t = WhatsTheWeather => ~wake.has
      /\ wake.t = W_jarvisx => wake.has

\* the helpers were given "jarvisx", a word that only begins with the wakeword
C15_PrefixOfLongerWord ==
    wake.done /\ wake.t = W_jarvisx /\ wake.has /\ wake.norm = W_jarvisx

\* C16: normalizing a normalized text changes nothing, and the empty text
\* normalizes to the empty text.
C16_NormalizeIdempotent ==
    wake.done =>
      /\ wake.renorm = wake.norm
      /\ wake.t = <<>> => wake.norm = <<>>

\* thread t made a step of its loop, from a to b (the end of the process, which
\* ends every thread where it is, is no step of the loop)
Stepped(a, b) == a.pc # b.pc /\ ui'.pc # "quit"

\* a capture at the top of the loop returned without an utterance: the thread is in
\* time.sleep for the backoff; nothing was dispatched and nothing was raised
BacksOff(a, b) ==
    a.pc = "listen" /\ Stepped(a, b) /\ ~Truthy(b.heard)
      => b.pc = "sleep" /\ b.slept = Backoff

\* after the backoff the thread is at the loop test again, and with the flag set it
\* calls listen() again
PollsAgain(a, b) ==
    /\ a.pc = "sleep" /\ Stepped(a, b) => b.pc = "top"
    /\ a.pc = "top" /\ Stepped(a, b) /\ listening => b.pc = "listen"

\* C11 as stated: every capture that yields no utterance, the follow-up capture
\* included, is followed by the backoff sleep and a new poll
C11_BackoffAfterEveryCapture ==
    [][\A t \in ListenThreads :
         LET a == listen_thread[t]
             b == listen_thread'[t]
         IN /\ BacksOff(a, b)
            /\ PollsAgain(a, b)
            /\ a.pc = "follow" /\ Stepped(a, b) /\ ~Truthy(b.heard)
                 => b.pc = "sleep" /\ b.slept = Backoff]_vars

\* C11: a capture at the top of the loop that yields no utterance (no microphone,
\* timeout, unrecognized speech, request error, empty text) raises nothing and
\* dispatches nothing: the loop sleeps the backoff of 0.5 s, returns to its test and,
\* the flag still set, polls again. A follow-up capture that yields nothing raises
\* and dispatches nothing either, and returns to the test without the backoff.
C11_BackoffAfterEmptyPoll ==
    [][\A t \in ListenThreads :
         LET a == listen_thread[t]
             b == listen_thread'[t]
         IN /\ BacksOff(a, b)
            /\ PollsAgain(a, b)
            /\ a.pc = "follow" /\ Stepped(a, b) /\ ~Truthy(b.heard)
                 => b.pc = "top" /\ b.slept = 0]_vars

\* a thread in the backoff sleep after a capture without a microphone
C11_SleepsWithoutMicrophone ==
    \E t \in ListenThreads :
      /\ ~mic
      /\ listen_thread[t].pc = "sleep"
      /\ listen_thread[t].heard = None
      /\ listen_thread[t].slept = Backoff

\* C12: a thread of the listening loop that has had a stop request starts no new
\* capture at the top of the loop
C12_StoppedLoopStartsNoCapture ==
    [][\A t \in ListenThreads :
         listen_thread[t].stopped /\ listen_thread[t].pc = "top"
           => listen_thread'[t].pc # "listen"]_vars

\* C13: a typed command in which has_wakeword finds the wakeword is passed to
\* process_command as what strip_wakeword leaves of it, a text without wakeword
C13_TypedWakewordStripped ==
    ui.pc = "dispatch" /\ has_wakeword(ui.txt)
      => ui.cmd = strip_wakeword(ui.txt) /\ ~has_wakeword(ui.cmd)

\* the threads inside self.cap.read()
Readers ==
    {c \in CameraThreads : camera_thread[c] = "read"}
    \cup {t \in ListenThreads : listen_thread[t].pc = "capture"}
    \cup (IF ui.pc = "capture" THEN {"ui"} ELSE {})

\* C17: at no time are two threads reading a frame from the camera handle
C17_OneFrameReader == Cardinality(Readers) <= 1

\* C18: a capture that has the wakeword and nothing after it makes the loop speak
\* "Yes?" and call listen() once more, and no other capture does; the text of that
\* follow-up, if any, is passed to process_command as it is, once; with no text
\* nothing is dispatched; and then the loop is at its test again, the first
\* utterance never dispatched
C18_WakewordOnlyTurn ==
    [][\A t \in ListenThreads :
         LET a == listen_thread[t]
             b == listen_thread'[t]
         IN /\ a.pc = "listen" /\ Stepped(a, b)
                 => /\ b.pc = "follow"
                         <=> /\ Truthy(b.heard)
                             /\ has_wakeword(b.heard.text)
                             /\ strip_wakeword(b.heard.text) = <<>>
                    /\ b.pc = "follow" => b.said = "Yes?" /\ b.txt = b.heard.text
            /\ a.pc = "follow" /\ Stepped(a, b)
                 => IF Truthy(b.heard)
                    THEN b.pc = "dispatch" /\ b.cmd = b.heard.text /\ b.txt = a.txt
                    ELSE b.pc = "top"
            /\ a.pc \in {"dispatch", "capture"} /\ a.said = "Yes?" /\ Stepped(a, b)
                 => b.pc \in {"top", "capture"}]_vars

(***************************************************************************)
(* Properties of the web lookup (under SpecLookup)                         *)
(***************************************************************************)
\* the candidates the last lookup fetched, in the order of the fetches
Fetched ==
    LET ev == lookup.res.events
        RECURSIVE Gets(_)
        Gets(i) == IF i > Len(ev) THEN <<>>
                   ELSE (IF ev[i].op = "requests.get" THEN <<ev[i].arg>> ELSE <<>>)
                        \o Gets(i + 1)
    IN Gets(1)

\* a candidate whose fetch gives a 2xx response and a page with some text
YieldsText(kind) == kind \in {"other2xx", "snippet", "nosnippet", "untitled"}

\* the candidates of the last lookup that yield text
Yielding == {i \in DOMAIN lookup.found.urls : YieldsText(lookup.found.urls[i])}

FirstYielding == CHOOSE i \in Yielding : \A j \in Yielding : i <= j

EndsWith(t, p) == Len(p) <= Len(t) /\ SubSeq(t, Len(t) - Len(p) + 1, Len(t)) = p

SourceOf(url) == <<"S","o","u","r","c","e",":"," ">> \o url

\* C19: the lookup fetches at most 5 candidates, in the order of discovery, up to
\* the first that gives a 2xx response and some text, passing over those whose fetch
\* raises, is not 2xx or gives no text; it returns the text of that candidate with
\* its URL as the source, and None when there is no such candidate or discovery
\* failed.
C19_FirstCandidateWithText ==
    lookup.done =>
      /\ Len(Fetched) <= NUM_RESULTS
      /\ \A i \in DOMAIN Fetched : Fetched[i] = Url(i)
      /\ IF ~google_search \/ ~lookup.found.ok \/ Yielding = {}
         THEN /\ lookup.res.val = None
              /\ lookup.found.ok /\ google_search => Len(Fetched) = Len(lookup.found.urls)
         ELSE /\ lookup.res.val.some
              /\ EndsWith(lookup.res.val.text, SourceOf(Url(FirstYielding)))
              /\ Len(Fetched) = FirstYielding

(***************************************************************************)
(* The wikipedia/wiki rule (under SpecDispatch)                            *)
(***************************************************************************)
\* the last call was made with a text that begins with "wikipedia " or "wiki " and
\* that none of the rules 1 to 6 takes
IsWikiCommand ==
    /\ call.done
    /\ LET text_lower == Strip(Lower(Strip(call.text)))
       IN /\ \/ IsPrefix(<<"w","i","k","i","p","e","d","i","a"," ">>, text_lower)
             \/ IsPrefix(<<"w","i","k","i"," ">>, text_lower)
          /\ \A i \in 1..6 : ~Matches(i, text_lower)

\* what follows the first space of text
RestAfterSpace(text) ==
    LET i == CHOOSE k \in DOMAIN text : text[k] = " " /\ \A j \in 1..(k - 1) : text[j] # " "
    IN SubSeq(text, i + 1, Len(text))

\* C21: a wikipedia/wiki command, and nothing else, is handled by the wikipedia
\* rule; the query is what follows the first space; the structured lookup is called
\* with it; the web lookup is called, with the same query, if and only if the
\* structured lookup found nothing; and nobody opens a browser during the call.
C21_WikiRuleOpensNoBrowser ==
    /\ IsWikiCommand <=> (call.done /\ call.branches = <<7>>)
    /\ IsWikiCommand =>
         LET q == RestAfterSpace(Strip(call.text))
             wiki == call.helpers[1]
             webCalled == Len(call.helpers) = 2
         IN /\ wiki.fn = "search_wikipedia"
            /\ Cardinality(At(PC, "search_wikipedia")) = 1
            /\ \A i \in At(PC, "search_wikipedia") : call.events[i].arg = q
            /\ webCalled <=> ~Found(wiki.val)
            /\ webCalled <=> Cardinality(At(PC, "google_first_snippet")) = 1
            /\ \A i \in At(PC, "google_first_snippet") :
                 /\ call.events[i].arg = q
                 /\ \A w \in At(PC, "search_wikipedia") : w < i
            /\ BrowserOpened = {}

(***************************************************************************)
(* The camera and the listening threads (under Spec)                       *)
(***************************************************************************)
\* the threads that call self.cap.read() of capture_photo in this step
StartsCapture ==
    {t \in ListenThreads : listen_thread[t].pc # "capture" /\ listen_thread'[t].pc = "capture"}
    \cup (IF ui.pc # "capture" /\ ui'.pc = "capture" THEN {"ui"} ELSE {})

\* C22: while the camera is not running (never started, failed to open, or stopped,
\* the frame pump having released the handle or not yet) capture_photo reads no
\* frame
C22_NoCaptureWhenStopped == [][~camera_running => StartsCapture = {}]_vars

\* C23: at no time are two threads in _listening_loop
C23_OneListeningLoop == Cardinality(Alive) <= 1

====
